---- MODULE Spec2Model ----
(***************************************************************************)
(* Model of the cybergenesis front-end: the LandModel material pass, the   *)
(* procedural background shader of CubeVisualization (two revisions), its  *)
(* frame driver, and the MapView map initialisation effect.                *)
(*                                                                         *)
(* Two revisions of the 3D components are kept in the repository:          *)
(*   "current" : src/frontend/src/components/...                           *)
(*   "legacy"  : src/src/frontend/src/components/...                       *)
(* The variable rev says which one is built; it never changes in a run.    *)
(***************************************************************************)
EXTENDS Integers, Sequences, FiniteSets, TLC

VARIABLES
    rev,            \* which revision of the components is built
    \* ---- LandModel (one mounted instance inside the Canvas) ----
    biome,          \* biome prop of CubeVisualization ("" = no biome)
    mounted,        \* LandModel instance is mounted
    gltf,           \* model the instance currently holds (useLoader result), or NoModel while suspended
    loaderCache,    \* URLs useLoader has already loaded
    isInitialized,  \* LandModel.isInitialized ref
    fittedRef,      \* LandModel.fittedRef ref
    dithering,      \* per model: m.dithering of its materials
    passes,         \* per model: material passes applied by the mounted instance
    loadedHere,     \* models the mounted instance has loaded so far
    meshes,         \* the meshes of the scene LandModel holds, with their materials
    \* ---- background fragment shader ----
    fragCoord,      \* pixel being shaded (gl_FragCoord is its centre)
    resolution,     \* the resolution uniform <<x, y>>
    seed,           \* which random() table the device computes
    evals,          \* per value of the time uniform: the evaluation of main()
    probe,          \* last direct call of fbm() or noise()
    \* ---- frame driver (Canvas, BackgroundSphere useFrame) ----
    size,           \* r3f state.size <<width, height>> in CSS pixels
    dpr2,           \* twice the pixel ratio the Canvas runs at
    lastFrame,      \* what the last rendered frame saw
    canvasMounted,  \* the Canvas (and the bloom effect inside it) is mounted
    clock,          \* r3f state.clock elapsed time, in ticks
    timeUniform,    \* the time uniform of the background material
    cameraLayers,   \* camera.layers: the set of enabled layers
    autoClear,      \* gl.autoClear
    bloomTexture,   \* composite pass uniform bloomTexture: <<composer set, buffer>>
    readBuffer,     \* the bloom composer's readBuffer: buffer 1 or 2
    composerSets,   \* per composer set: made, and dispose() calls per object
    composerRef,    \* the composer refs of the bloom effect: a set id, 0 = null
    \* ---- MapView (Maptalks revision) ----
    mvMounted,          \* MapView is mounted
    windowMaptalks,     \* window.maptalks is defined (the SDK script has run)
    scriptPending,      \* the SDK script tag is loading
    maptalksSdkLoaded,  \* MapView state maptalksSdkLoaded
    lands,              \* useQuery data: 0 = undefined, k = the k-th array fetched
    map,                \* the map the last effect run created, 0 = none
    mapState,           \* per map id: "none", "created", "loaded" or "removed"
    timers,             \* maps whose delayed animateTo is pending
    flown,              \* maps animateTo has been called on
    animatedRemoved,    \* maps animateTo was called on after map.remove()
    mountMaps,          \* maps created since MapView mounted
    \* ---- ThreeErrorBoundary ----
    boundary,           \* this.state: hasError, errorMessage
    onErrorProp,        \* whether the onError prop is given
    onErrorCalls,       \* the messages onError has been called with
    boundaryLast,       \* the last event the boundary handled
    \* ---- Dashboard ----
    isLoading,          \* useQuery isLoading of the land data
    dashLands,          \* useQuery data: the lands (their biomes), <<>> while undefined
    selectedLandIndex,  \* Dashboard state selectedLandIndex
    dashRenders,        \* the renders of Dashboard the last update caused, in order
    refreshes,          \* land-data results delivered so far
    lastClick,          \* the last click on a LandSelector button and the call it made
    \* ---- MapView (revisions that guard on mapRef) ----
    mapLib,             \* which guarded revision: "maptalks" or "leaflet"
    rmMounted,          \* MapView is mounted
    rmSdk,              \* the map library global (window.maptalks / window.L) is defined
    rmLands,            \* useQuery data: 0 = undefined, k = the k-th array fetched
    mapRef,             \* mapRef.current: a map id, 0 = null
    markersRef,         \* markersRef.current: the map whose markers it holds, 0 = []
    rmMaps,             \* per map id: "none", "live" or "removed"
    rmMarkers,          \* per map id: its markers are "none", "added" or "removed"
    hasCleanup,         \* the last run of the map effect returned a cleanup
    \* ---- MapView (canvas revision): the render loop ----
    cvPhase,            \* "closed", "mounted" or "unmounted"
    imageLoaded,        \* MapView state imageLoaded
    cvLands,            \* useQuery data: 0 = undefined, k = the k-th array fetched
    activeLoop,         \* the loop whose cleanup the effect holds, 0 = none
    loopCount,          \* loops the effect has started
    requestCount,       \* requestAnimationFrame calls made
    pendingFrames,      \* scheduled callbacks: <<request id, loop>>
    animationFrameRef,  \* animationFrameRef.current: a request id, 0 = null
    cleanedLoops,       \* loops whose cleanup has run
    lateFrames,         \* loops whose animate ran after their cleanup
    \* ---- CubeVisualization: fullscreen ----
    fsMounted,          \* CubeVisualization is mounted with its container rendered
    fullscreenElement,  \* document.fullscreenElement: "none" (null) or "container"
    isFullscreen,       \* CubeVisualization state isFullscreen
    pendingEvents,      \* fullscreenchange events dispatched and not yet delivered
    eventCount,         \* fullscreenchange events dispatched so far
    handledSinceMount,  \* the mounted component has handled a fullscreenchange event
    lastToggle          \* the last call of toggleFullscreen

landVars == <<biome, mounted, gltf, loaderCache, isInitialized, fittedRef,
              dithering, passes, loadedHere>>

shaderVars == <<fragCoord, resolution, seed, evals, probe>>

frameVars == <<size, dpr2, lastFrame, canvasMounted, clock, timeUniform, cameraLayers,
               autoClear, bloomTexture, readBuffer, composerSets, composerRef>>

materialVars == <<meshes>>

mapVars == <<mvMounted, windowMaptalks, scriptPending, maptalksSdkLoaded, lands,
             map, mapState, timers, flown, animatedRemoved, mountMaps>>

uiVars == <<boundary, onErrorProp, onErrorCalls, boundaryLast>>

dashVars == <<isLoading, dashLands, selectedLandIndex, dashRenders, refreshes, lastClick>>

refMapVars == <<mapLib, rmMounted, rmSdk, rmLands, mapRef, markersRef, rmMaps, rmMarkers,
                hasCleanup>>

loopVars == <<cvPhase, imageLoaded, cvLands, activeLoop, loopCount, requestCount,
              pendingFrames, animationFrameRef, cleanedLoops, lateFrames>>

fullscreenVars == <<fsMounted, fullscreenElement, isFullscreen, pendingEvents, eventCount,
                    handledSinceMount, lastToggle>>

pageVars == <<dashVars, refMapVars, loopVars, fullscreenVars, fullscreenVars>>

vars == <<rev, landVars, materialVars, shaderVars, frameVars, mapVars, uiVars, pageVars>>

Revisions == {"current", "legacy"}

----------------------------------------------------------------------------
(* CubeVisualization: biome -> model URL                                   *)

\* Keys of BIOME_MODEL_MAP; a model URL is identified with its key.
BIOME_MODEL_MAP ==
    {"FOREST_VALLEY", "ISLAND_ARCHIPELAGO", "SNOW_PEAK", "DESERT_DUNE",
     "VOLCANIC_CRAG", "MYTHIC_VOID", "MYTHIC_AETHER"}

NoModel == "none"

\* Biome props Dashboard can pass: a key, another string, or none ("").
BiomeProps == BIOME_MODEL_MAP \cup {"UNKNOWN", ""}

\* Biomes of the lands the signed-in user owns (what Dashboard passes on).
OwnedBiomes == {"FOREST_VALLEY", "SNOW_PEAK", "MYTHIC_VOID", "UNKNOWN", ""}

\* Property names every object literal inherits from Object.prototype: a
\* lookup with one of them yields the inherited function, which is truthy.
ObjectPrototypeKeys == {"constructor", "toString"}

\* What BIOME_MODEL_MAP[b] yields for an inherited property name.
InheritedMember == "[Function]"

\* useMemo in CubeVisualization: null when the biome is missing, and
\* otherwise BIOME_MODEL_MAP[biome] || null.
modelUrl(b) == IF b = "" THEN NoModel
               ELSE IF b \in BIOME_MODEL_MAP THEN b
               ELSE IF b \in ObjectPrototypeKeys THEN InheritedMember
               ELSE NoModel

----------------------------------------------------------------------------
(* LandModel                                                               *)

\* Most material passes counted per model (caps the counter).
MaxPasses == 2

\* Refs and material state the effect reads and writes.
LandState == [isInitialized |-> isInitialized, fittedRef |-> fittedRef,
              dithering |-> dithering, passes |-> passes]

\* Refs of a freshly mounted instance; materials keep what earlier
\* instances wrote to the cached scene, the pass count starts again.
FreshLandState == [isInitialized |-> FALSE, fittedRef |-> FALSE,
                   dithering |-> dithering,
                   passes |-> [m \in BIOME_MODEL_MAP |-> 0]]

\* The useEffect body run with scene g: returns early when there is no
\* scene or isInitialized is set; otherwise configures every material of
\* the scene, fits the camera once and sets isInitialized.
LandModelEffect(g, st) ==
    IF g = NoModel \/ st.isInitialized
    THEN st
    ELSE [isInitialized |-> TRUE,
          fittedRef     |-> TRUE,
          dithering     |-> [st.dithering EXCEPT ![g] = TRUE],
          passes        |-> [st.passes EXCEPT ![g] =
                                IF @ < MaxPasses THEN @ + 1 ELSE @]]

SetLandState(st) ==
    /\ isInitialized' = st.isInitialized
    /\ fittedRef' = st.fittedRef
    /\ dithering' = st.dithering
    /\ passes' = st.passes

\* Render of LandModel with modelUrl u from refs st: useLoader returns a
\* cached model at once and the commit runs the effect; otherwise the
\* instance suspends until the load completes.
RenderLandModel(u, st) ==
    IF u \in loaderCache
    THEN /\ gltf' = u
         /\ loadedHere' = (IF mounted THEN loadedHere ELSE {}) \cup {u}
         /\ SetLandState(LandModelEffect(u, st))
    ELSE /\ gltf' = NoModel
         /\ loadedHere' = (IF mounted THEN loadedHere ELSE {})
         /\ SetLandState(st)

\* CubeVisualization renders with a mapped biome while nothing is mounted:
\* the Canvas and a fresh LandModel instance mount.
MountLandModel(b) ==
    /\ ~mounted
    /\ modelUrl(b) # NoModel
    /\ biome' = b
    /\ mounted' = TRUE
    /\ RenderLandModel(modelUrl(b), FreshLandState)
    /\ UNCHANGED <<rev, materialVars, uiVars, pageVars, loaderCache, shaderVars, frameVars, mapVars>>

\* GLTFLoader finishes the pending load: the suspended instance commits
\* with the loaded scene and its effect runs.
LoadComplete ==
    /\ mounted
    /\ gltf = NoModel
    /\ loaderCache' = loaderCache \cup {modelUrl(biome)}
    /\ gltf' = modelUrl(biome)
    /\ loadedHere' = loadedHere \cup {modelUrl(biome)}
    /\ SetLandState(LandModelEffect(modelUrl(biome), LandState))
    /\ UNCHANGED <<rev, materialVars, uiVars, pageVars, biome, mounted, shaderVars, frameVars, mapVars>>

\* Dashboard selects another land: the biome prop changes.  A mapped biome
\* re-renders the same LandModel instance (no key, refs kept); an unmapped
\* one makes CubeVisualization return the fallback, unmounting the Canvas.
ChangeBiome(b) ==
    /\ mounted
    /\ b # biome
    /\ biome' = b
    /\ IF modelUrl(b) = NoModel
       THEN /\ mounted' = FALSE
            /\ gltf' = NoModel
            /\ loadedHere' = {}
            /\ SetLandState(FreshLandState)
       ELSE /\ mounted' = TRUE
            /\ RenderLandModel(modelUrl(b), LandState)
    /\ UNCHANGED <<rev, materialVars, uiVars, pageVars, loaderCache, shaderVars, frameVars, mapVars>>

\* Dashboard stops rendering CubeVisualization (loading / no lands).
UnmountLandModel ==
    /\ mounted
    /\ mounted' = FALSE
    /\ biome' = ""
    /\ gltf' = NoModel
    /\ loadedHere' = {}
    /\ SetLandState(FreshLandState)
    /\ UNCHANGED <<rev, materialVars, uiVars, pageVars, loaderCache, shaderVars, frameVars, mapVars>>

\* Another dependency of the effect changes (gl, camera) while the scene
\* stays the same: the effect body runs again.
RerunLandEffect ==
    /\ mounted
    /\ gltf # NoModel
    /\ SetLandState(LandModelEffect(gltf, LandState))
    /\ UNCHANGED <<rev, materialVars, uiVars, pageVars, biome, mounted, gltf, loaderCache, loadedHere, shaderVars, frameVars, mapVars>>

InitLand ==
    /\ biome = ""
    /\ mounted = FALSE
    /\ gltf = NoModel
    /\ loaderCache = {}
    /\ isInitialized = FALSE
    /\ fittedRef = FALSE
    /\ dithering = [m \in BIOME_MODEL_MAP |-> FALSE]
    /\ passes = [m \in BIOME_MODEL_MAP |-> 0]
    /\ loadedHere = {}

NextLand ==
    \/ \E b \in OwnedBiomes : MountLandModel(b)
    \/ LoadComplete
    \/ \E b \in OwnedBiomes : ChangeBiome(b)
    \/ UnmountLandModel
    \/ RerunLandEffect

----------------------------------------------------------------------------
(* Background fragment shader of BackgroundSphere.                         *)
(* Floats are fixed-point integers: a float v is the integer v * Scale.    *)

Scale == 10 ^ 3

NUM_OCTAVES == 6

Min(a, b) == IF a < b THEN a ELSE b
Max(a, b) == IF a > b THEN a ELSE b
Abs(a) == IF a < 0 THEN 0 - a ELSE a

\* GLSL clamp(x, minVal, maxVal) = min(max(x, minVal), maxVal)
clamp(x, lo, hi) == Min(Max(x, lo), hi)

\* Product of two fixed-point numbers, split so that it stays in 32 bits.
mul(a, b) == (a \div Scale) * b + ((a % Scale) * b) \div Scale

\* floor(sqrt(n)) by bisection on [lo, hi].
RECURSIVE isqrt(_, _, _)
isqrt(n, lo, hi) ==
    IF lo >= hi THEN lo
    ELSE LET mid == (lo + hi + 1) \div 2
         IN IF mid * mid <= n THEN isqrt(n, mid, hi) ELSE isqrt(n, lo, mid - 1)

\* GLSL length(vec2) and length(float), on fixed-point values below 46.
length2(v) == isqrt(v[1] * v[1] + v[2] * v[2], 0, 46 * Scale)
length1(x) == Abs(x)

\* GLSL mix(x, y, a) = x * (1 - a) + y * a, per channel.
mix(x, y, a) == (x * (Scale - a) + y * a) \div Scale
mix3(c, d, a) == <<mix(c[1], d[1], a), mix(c[2], d[2], a), mix(c[3], d[3], a)>>

\* random(pos) = fract(sin(dot(pos, vec2(13.9898, 78.233))) * 43758.5453123)
\* at the lattice point <<ix, iy>>.  fract puts the value in [0, 1); which
\* value it is depends on the device's float sine of a large argument, so
\* the table is one of several scrambles of the same dot product, picked
\* by sd and fixed for a run.
random(ix, iy, sd) ==
    LET d == (14 * ix + 78 * iy + 7919 * sd) % 9973
    IN  (((d * d) % 9973) * 437) % Scale

\* vec2 u = f * f * (3.0 - 2.0 * f), for one component f in [0, 1)
smooth(f) == (((f * f) \div Scale) * (3 * Scale - 2 * f)) \div Scale

\* noise() with the factor (1.0 - u.x) of its second term left out.
noiseNumNoFactor(a, b, c, d, ux, uy) ==
    (a * (Scale - ux) + b * ux) * Scale
      + (c - a) * uy * Scale
      + (d - b) * ux * uy

\* The return expression of noise(), as an exact numerator over Scale^3:
\* mix(a, b, u.x) + (c - a) * u.y * (1.0 - u.x) + (d - b) * u.x * u.y
noiseNum(a, b, c, d, ux, uy) ==
    (a * (Scale - ux) + b * ux) * Scale
      + (c - a) * uy * (Scale - ux)
      + (d - b) * ux * uy

\* noise(pos): the four lattice corners of the cell of pos, blended.
noiseAt(pos, sd) ==
    LET ix == pos[1] \div Scale
        iy == pos[2] \div Scale
        fx == pos[1] % Scale
        fy == pos[2] % Scale
    IN  noiseNum(random(ix, iy, sd), random(ix + 1, iy, sd),
                 random(ix, iy + 1, sd), random(ix + 1, iy + 1, sd),
                 smooth(fx), smooth(fy))

noise(pos, sd) == noiseAt(pos, sd) \div (Scale * Scale)

\* float dir = mod(float(i), 2.0) > 0.5 ? 1.0 : -1.0
dir(i) == IF i % 2 = 1 THEN 1 ELSE -1

\* 0.05 * dir * time
drift(i, t) == dir(i) * ((50 * t) \div Scale)

\* pos = rot * pos * 2.0 + shift, rot = mat2(cos .5, sin .5, -sin .5, cos .5)
COS_HALF == 878
SIN_HALF == 479
SHIFT == 100
nextPos(pos) ==
    << 2 * (mul(pos[1], COS_HALF) - mul(pos[2], SIN_HALF)) + SHIFT * Scale,
       2 * (mul(pos[1], SIN_HALF) + mul(pos[2], COS_HALF)) + SHIFT * Scale >>

\* fbm() whose amplitude starts at 1.0 instead of 0.5.
RECURSIVE fbmLoopFullAmplitude(_, _, _, _, _)
fbmLoopFullAmplitude(i, n, pos, t, sd) ==
    IF i >= n THEN 0
    ELSE noise(<<pos[1] - drift(i, t), pos[2] - drift(i, t)>>, sd) * 2 ^ (n - i)
         + fbmLoopFullAmplitude(i + 1, n, nextPos(pos), t, sd)

\* The loop of fbm() from octave i on, for n octaves.  The amplitude a
\* starts at 0.5 and halves every octave; the sum is kept exact as a
\* numerator over 2^n: octave i adds noise * 2^(n-1-i).
RECURSIVE fbmLoop(_, _, _, _, _)
fbmLoop(i, n, pos, t, sd) ==
    IF i >= n THEN 0
    ELSE noise(<<pos[1] - drift(i, t), pos[2] - drift(i, t)>>, sd) * 2 ^ (n - 1 - i)
         + fbmLoop(i + 1, n, nextPos(pos), t, sd)

fbmNum(n, pos, t, sd) == fbmLoop(0, n, pos, t, sd)

fbm(pos, t, sd) == fbmNum(NUM_OCTAVES, pos, t, sd) \div 2 ^ NUM_OCTAVES

\* Palettes.  current: c1, c2, c3, c4.  legacy: deep purple, black void,
\* bright neon, bright highlight.
Palette(rv) ==
    IF rv = "current"
    THEN << <<200, 0, 400>>, <<0, 800, 1000>>, <<900, 100, 400>>, <<0, 0, 50>> >>
    ELSE << <<50, 0, 100>>, <<0, 0, 0>>, <<600, 0, 800>>, <<800, 400, 1000>> >>

\* gl_FragCoord.xy * k - resolution.xy for pixel px (gl_FragCoord is the
\* pixel centre px + 0.5); k is 2.0 in current and 3.0 in legacy.
fragFactor(rv) == IF rv = "current" THEN 2 ELSE 3
numerator(rv, px, res) ==
    << (((2 * px[1] + 1) * fragFactor(rv) - 2 * res[1]) * Scale) \div 2,
       (((2 * px[2] + 1) * fragFactor(rv) - 2 * res[2]) * Scale) \div 2 >>

\* The divisor of the normalisation: min(resolution.x, resolution.y)
divisor(res) == Min(res[1], res[2])

\* A float division in GLSL.  Dividing by zero yields an unspecified
\* value: an infinity or NaN (fin = FALSE) or any float.
divide(num, den) ==
    IF den # 0
    THEN {[fin |-> TRUE, v |-> <<num[1] \div den, num[2] \div den>>]}
    ELSE {[fin |-> FALSE, v |-> <<0, 0>>], [fin |-> TRUE, v |-> <<0, 0>>],
          [fin |-> TRUE, v |-> num]}

\* time2 following the time uniform in both revisions.
time2Animated(rv, t) == mul(t, 200)

\* float time2: time * 0.2 in current, the constant 100.0 in legacy
time2(rv, t) == IF rv = "current" THEN mul(t, 200) ELSE 100 * Scale

\* The three time terms added to the sampling coordinates of q and r:
\* 0.00 * time2, 0.15 * time2, 0.126 * time2
warp(rv, t) == << mul(time2(rv, t), 0), mul(time2(rv, t), 150), mul(time2(rv, t), 126) >>

\* The third arguments of the three colour mixes of main().
mixWeights(rv, f, q, r) ==
    IF rv = "current"
    THEN << clamp(mul(mul(f, f), 4000), 0, Scale),
            clamp(length2(q), 0, Scale),
            clamp(length1(r[1]), 0, Scale) >>
    ELSE << clamp(mul(mul(f, f), 5500), 1200, 15500),
            clamp(length2(q), 2000, 2000),
            clamp(length1(r[1]), 0, 5000) >>

\* color = (f*f*f*1.5 + 0.5*f) * color in current,
\* color = (f*f*f*1.0 + 0.5*1.7*0.0 + 0.9*f) * color in legacy
gain(rv, f) ==
    IF rv = "current"
    THEN mul(mul(mul(f, f), f), 1500) + mul(f, 500)
    ELSE mul(mul(f, f), f) + 0 + mul(f, 900)

\* gl_FragColor.rgb: pow(color, vec3(3.0)) * 6.0 in current, color in legacy
fragColor(rv, c) ==
    IF rv = "current"
    THEN [k \in 1..3 |-> mul(mul(mul(c[k], c[k]), c[k]), 6000)]
    ELSE c

\* The colour stage of main(): the three mixes, the gain and the output.
colorize(rv, f, q, r, w) ==
    LET wt == mixWeights(rv, f, q, r)
        pal == Palette(rv)
        m1 == mix3(pal[1], pal[2], wt[1])
        m2 == mix3(m1, pal[3], wt[2])
        m3 == mix3(m2, pal[4], wt[3])
        g  == gain(rv, f)
        c  == <<mul(m3[1], g), mul(m3[2], g), mul(m3[3], g)>>
    IN  [f |-> f, q |-> q, r |-> r, weights |-> wt, warp |-> w,
         out |-> fragColor(rv, c)]

\* float f = fbm(p + r)
fieldOf(rv, p0, q, r, w, t, sd) ==
    colorize(rv, fbm(<<p0[1] + r[1], p0[2] + r[2]>>, t, sd), q, r, w)

\* r.x = fbm(p + 1.0*q + vec2(1.7, 1.2) + 0.15*time2),
\* r.y = fbm(p + 1.0*q + vec2(8.3, 2.8) + 0.126*time2)
warpR(rv, p0, q, w, t, sd) ==
    fieldOf(rv, p0, q,
            << fbm(<<p0[1] + q[1] + 1700 + w[2], p0[2] + q[2] + 1200 + w[2]>>, t, sd),
               fbm(<<p0[1] + q[1] + 8300 + w[3], p0[2] + q[2] + 2800 + w[3]>>, t, sd) >>,
            w, t, sd)

\* q.x = fbm(p + 0.00*time2), q.y = fbm(p + vec2(1.0))
warpQ(rv, p0, w, t, sd) ==
    warpR(rv, p0,
          << fbm(<<p0[1] + w[1], p0[2] + w[1]>>, t, sd),
             fbm(<<p0[1] + Scale, p0[2] + Scale>>, t, sd) >>,
          w, t, sd)

\* main() from the normalised coordinate p on (p is finite); legacy first
\* moves p by vec2(12.0, 0.0).
shade(rv, p, t, sd) ==
    warpQ(rv, IF rv = "legacy" THEN <<p[1] - 12 * Scale, p[2]>> ELSE p,
          warp(rv, t), t, sd)

\* Values of the time uniform (seconds, fixed-point): 0, 1.25, 2.5, ...
MaxTicks == 2
Times == {k * 1250 : k \in 0..MaxTicks}

Resolutions == {<<800, 600>>, <<600, 800>>, <<0, 600>>, <<600, 0>>}
Pixels == {<<0, 0>>, <<200, 60>>, <<400, 300>>, <<599, 599>>}
Seeds == {0, 1}

NoEval == [done |-> FALSE]
NoProbe == [kind |-> "none"]

\* One invocation of main() for the pixel, with the time uniform t.
Evaluate(t) ==
    /\ ~evals[t].done
    /\ \E p \in divide(numerator(rev, fragCoord, resolution), divisor(resolution)) :
          evals' = [evals EXCEPT ![t] =
              IF p.fin
              THEN LET sh == shade(rev, p.v, t, seed)
                   IN  [done |-> TRUE, divisor |-> divisor(resolution), fin |-> TRUE,
                        weights |-> sh.weights, warp |-> sh.warp, out |-> sh.out]
              ELSE [done |-> TRUE, divisor |-> divisor(resolution), fin |-> FALSE,
                    weights |-> <<0, 0, 0>>, warp |-> warp(rev, t), out |-> <<0, 0, 0>>]]
    /\ UNCHANGED <<rev, materialVars, uiVars, pageVars, landVars, frameVars, mapVars, fragCoord, resolution, seed, probe>>

\* Octave counts and coordinates fbm() and noise() are called with directly.
MaxProbeOctaves == 2
ProbeCoords == {0, 250, 1000, 1700, -300}
ProbePositions == ProbeCoords \X ProbeCoords

\* fbm(pos) compiled with n octaves, time uniform t.
ProbeFbm(n, pos, t) ==
    /\ probe' = [kind |-> "fbm", n |-> n, pos |-> pos, t |-> t,
                 num |-> fbmNum(n, pos, t, seed)]
    /\ UNCHANGED <<rev, materialVars, uiVars, pageVars, landVars, frameVars, mapVars, fragCoord, resolution, seed, evals>>

\* noise(pos): the corners read, the smoothed offsets and the result.
ProbeNoise(pos) ==
    /\ LET ix == pos[1] \div Scale
           iy == pos[2] \div Scale
       IN probe' = [kind |-> "noise", pos |-> pos,
                    a |-> random(ix, iy, seed), b |-> random(ix + 1, iy, seed),
                    c |-> random(ix, iy + 1, seed), d |-> random(ix + 1, iy + 1, seed),
                    ux |-> smooth(pos[1] % Scale), uy |-> smooth(pos[2] % Scale),
                    num |-> noiseAt(pos, seed)]
    /\ UNCHANGED <<rev, materialVars, uiVars, pageVars, landVars, frameVars, mapVars, fragCoord, resolution, seed, evals>>

IdleShader ==
    /\ fragCoord = <<0, 0>>
    /\ resolution = <<1, 1>>
    /\ seed = 0
    /\ evals = [t \in Times |-> NoEval]
    /\ probe = NoProbe

\* A pixel of the viewport; for an empty viewport the coordinate <<0, 0>>.
InitShader ==
    /\ resolution \in Resolutions
    /\ fragCoord \in Pixels
    /\ \/ fragCoord[1] < resolution[1] /\ fragCoord[2] < resolution[2]
       \/ divisor(resolution) = 0 /\ fragCoord = <<0, 0>>
    /\ seed \in Seeds
    /\ evals = [t \in Times |-> NoEval]
    /\ probe = NoProbe

NextShader == \E t \in Times : Evaluate(t)

NextNoise ==
    \/ \E n \in 1..MaxProbeOctaves, pos \in ProbePositions, t \in Times : ProbeFbm(n, pos, t)
    \/ \E pos \in ProbePositions : ProbeNoise(pos)

----------------------------------------------------------------------------
(* Frame driver: the Canvas, its drawing buffer and the resolution uniform *)

\* Sizes the Canvas container is measured at (CSS pixels).
Sizes == {<<800, 600>>, <<801, 601>>, <<400, 300>>, <<1024, 768>>, <<1280, 720>>}

\* Twice the device pixel ratios of the displays: 1, 1.5, 2, 3.
DevicePixelRatios2 == {2, 3, 4, 6}

\* The dpr prop of the Canvas, doubled: [1, 2] in current, [1, 1.5] in legacy.
dprProp(rv) == IF rv = "current" THEN <<2, 4>> ELSE <<2, 3>>

\* r3f clamps the device pixel ratio into the dpr prop's range.
canvasDpr2(rv, device2) == clamp(device2, dprProp(rv)[1], dprProp(rv)[2])

\* The drawing buffer: canvas.width = floor(width * pixelRatio), in device
\* pixels, the unit of gl_FragCoord.
canvasSize(sz, d2) == <<(sz[1] * d2) \div 2, (sz[2] * d2) \div 2>>

\* The uniforms object BackgroundSphere creates: resolution (1, 1) in
\* current, (size.width, size.height) in legacy.
initialResolution(rv, sz) == IF rv = "current" THEN <<1, 1>> ELSE sz

\* The value the resolution uniform has when the frame's render runs:
\* current writes canvas.width, canvas.height in its useFrame callback
\* (priority 0, before the composer render of priority 1); legacy writes
\* only the time uniform there.
resolutionAtRender(rv, res, sz, d2) ==
    IF rv = "current" THEN canvasSize(sz, d2) ELSE res

\* Most ticks of the clock and most composer sets constructed in a run.
MaxClock == 3
MaxComposerSets == 3

ComposerSetIds == 1..MaxComposerSets

\* The objects one run of the bloom effect constructs, and those its
\* cleanup calls dispose() on.
CreatedObjects(rv) ==
    IF rv = "current"
    THEN {"bloomComposer", "bloomRenderPass", "bloomPass",
          "finalComposer", "finalRenderPass", "compositePass"}
    ELSE {"composer", "renderPass", "bloomPass"}

DisposedObjects(rv) ==
    IF rv = "current"
    THEN {"bloomPass", "bloomComposer", "finalComposer"}
    ELSE {"bloomPass", "renderPass", "composer"}

\* The composers of a set (the objects render() is called on).
Composers(rv) == IF rv = "current" THEN {"bloomComposer", "finalComposer"} ELSE {"composer"}

AllObjects == CreatedObjects("current") \cup CreatedObjects("legacy")

NoSet == [made |-> FALSE, disposals |-> [o \in AllObjects |-> 0]]

\* The first unused composer set id, MaxComposerSets + 1 when all are used.
freshSet(sets) ==
    IF \E i \in ComposerSetIds : ~sets[i].made
    THEN CHOOSE i \in ComposerSetIds : ~sets[i].made /\ \A j \in 1..(i - 1) : sets[j].made
    ELSE MaxComposerSets + 1

\* The body of the bloom effect: constructs the composers and passes and
\* stores them in the refs.
bloomSetup(sets) == [sets EXCEPT ![freshSet(sets)] = [NoSet EXCEPT !.made = TRUE]]

\* The cleanup the bloom effect returned: dispose() on the objects the
\* refs hold, then the refs are set to null.
bloomCleanup(rv, sets, ref) ==
    IF ref = 0 THEN sets
    ELSE [sets EXCEPT ![ref].disposals =
            [o \in AllObjects |-> IF o \in DisposedObjects(rv) THEN @[o] + 1 ELSE @[o]]]

\* The render running before BackgroundSphere's callback has written the time.
timeAtRenderStale(rv, old, c) == old

\* The time uniform when the frame's render runs with the clock at c and
\* the uniform at old: BackgroundSphere's useFrame callback (priority 0)
\* has written the elapsed time before the bloom callback (priority 1).
timeAtRender(rv, old, c) == c

\* The calls of a frame callback that sets the composite pass's texture
\* before the bloom composer has rendered.
selectiveBloomStepsTextureFirst ==
    <<"layers.set(1)", "bloomTexture = readBuffer", "bloomComposer.render",
      "autoClear = true", "layers.set(0)", "layers.enable(1)", "finalComposer.render">>

\* The calls of SelectiveBloomEffect's frame callback, in program order.
selectiveBloomSteps ==
    <<"layers.set(1)", "bloomComposer.render", "bloomTexture = readBuffer",
      "autoClear = true", "layers.set(0)", "layers.enable(1)", "finalComposer.render">>

\* The calls of BloomEffect's frame callback in legacy.
bloomSteps == <<"composer.render">>

frameSteps(rv) == IF rv = "current" THEN selectiveBloomSteps ELSE bloomSteps

\* The effect of one call on the renderer and camera state st; the bloom
\* composer of set st.ref leaves its result in buffer st.rb.
step(call, st) ==
    CASE call = "layers.set(1)" -> [st EXCEPT !.cameraLayers = {1}]
      [] call = "layers.set(0)" -> [st EXCEPT !.cameraLayers = {0}]
      [] call = "layers.enable(1)" -> [st EXCEPT !.cameraLayers = @ \cup {1}]
      [] call = "autoClear = true" -> [st EXCEPT !.autoClear = TRUE]
      [] call = "bloomComposer.render" ->
            [st EXCEPT !.bloomSaw = [layers |-> st.cameraLayers], !.readBuffer = st.rb]
      [] call = "bloomTexture = readBuffer" ->
            [st EXCEPT !.bloomTexture = <<st.ref, st.readBuffer>>]
      [] OTHER ->
            [st EXCEPT !.finalSaw = [layers |-> st.cameraLayers,
                                     bloomTexture |-> st.bloomTexture,
                                     autoClear |-> st.autoClear]]

RECURSIVE runSteps(_, _, _)
runSteps(calls, i, st) ==
    IF i > Len(calls) THEN st ELSE runSteps(calls, i + 1, step(calls[i], st))

\* The bloom effect's frame callback run from the present state.
bloomFrame(rv, ref, rb) ==
    runSteps(frameSteps(rv), 1,
             [cameraLayers |-> cameraLayers, autoClear |-> autoClear,
              bloomTexture |-> bloomTexture, readBuffer |-> readBuffer,
              ref |-> ref, rb |-> rb,
              bloomSaw |-> [layers |-> {}],
              finalSaw |-> [layers |-> {}, bloomTexture |-> <<0, 0>>, autoClear |-> FALSE]])

NoFrame == [rendered |-> FALSE]

\* One frame of the render loop: the useFrame callbacks in priority order,
\* BackgroundSphere's first, the bloom effect's (which renders) last.  The
\* bloom callback returns at once while its composer refs are null.
Frame ==
    /\ canvasMounted
    /\ \E c \in clock..MaxClock, rb \in {1, 2} :
          LET fr == bloomFrame(rev, composerRef, rb)
          IN  /\ clock' = c
              /\ timeUniform' = c
              /\ resolution' = resolutionAtRender(rev, resolution, size, dpr2)
              /\ IF composerRef = 0
                 THEN UNCHANGED <<lastFrame, cameraLayers, autoClear, bloomTexture, readBuffer>>
                 ELSE /\ cameraLayers' = fr.cameraLayers
                      /\ autoClear' = fr.autoClear
                      /\ bloomTexture' = fr.bloomTexture
                      /\ readBuffer' = fr.readBuffer
                      /\ lastFrame' =
                           [rendered |-> TRUE, resolution |-> resolution',
                            viewport |-> canvasSize(size, dpr2),
                            time |-> timeAtRender(rev, timeUniform, c), clock |-> c,
                            uniformBefore |-> timeUniform,
                            prev |-> IF lastFrame.rendered THEN lastFrame.time ELSE 0,
                            steps |-> frameSteps(rev), bloomSaw |-> fr.bloomSaw,
                            finalSaw |-> fr.finalSaw, set |-> composerRef,
                            onDisposed |-> \E o \in Composers(rev) :
                                              composerSets[composerRef].disposals[o] > 0]
    /\ UNCHANGED <<rev, materialVars, uiVars, pageVars, landVars, mapVars, size, dpr2, canvasMounted, composerSets,
                   composerRef, fragCoord, seed, evals, probe>>

\* The container is resized: r3f updates state.size and the drawing
\* buffer.  Legacy re-creates the uniforms (useMemo on size, time 0.0)
\* and its effect writes size.width, size.height; its bloom effect has
\* size in its dependencies, so its cleanup and body run again.  Current
\* leaves the uniform to the next frame and only calls setSize.
Resize(sz) ==
    /\ canvasMounted
    /\ sz # size
    /\ size' = sz
    /\ resolution' = IF rev = "current" THEN resolution ELSE sz
    /\ timeUniform' = IF rev = "current" THEN timeUniform ELSE 0
    /\ IF rev = "current"
       THEN UNCHANGED <<composerSets, composerRef>>
       ELSE /\ freshSet(composerSets) <= MaxComposerSets
            /\ composerSets' = bloomSetup(bloomCleanup(rev, composerSets, composerRef))
            /\ composerRef' = freshSet(composerSets)
    /\ UNCHANGED <<rev, materialVars, uiVars, pageVars, landVars, mapVars, dpr2, lastFrame, canvasMounted, clock, cameraLayers,
                   autoClear, bloomTexture, readBuffer, fragCoord, seed, evals, probe>>

\* The state of a Canvas that has just mounted at size sz: a new clock,
\* camera (layer 0; CameraLayerSetup of current enables 0 and 1), renderer
\* (autoClear true; onCreated of current sets it to false), uniforms, and
\* the first run of the bloom effect.
mountedCanvas(rv, sz, sets) ==
    [resolution |-> initialResolution(rv, sz),
     cameraLayers |-> IF rv = "current" THEN {0} \cup {0} \cup {1} ELSE {0},
     autoClear |-> (rv # "current"),
     bloomTexture |-> <<freshSet(sets), 2>>,
     composerSets |-> bloomSetup(sets),
     composerRef |-> freshSet(sets)]

\* CubeVisualization unmounts (or shows its fallback): every effect of the
\* Canvas subtree is cleaned up and the frame callbacks unsubscribe.
UnmountCanvas ==
    /\ canvasMounted
    /\ canvasMounted' = FALSE
    /\ composerSets' = bloomCleanup(rev, composerSets, composerRef)
    /\ composerRef' = 0
    /\ UNCHANGED <<rev, materialVars, uiVars, pageVars, landVars, mapVars, size, dpr2, lastFrame, clock, timeUniform,
                   cameraLayers, autoClear, bloomTexture, readBuffer, resolution,
                   fragCoord, seed, evals, probe>>

\* CubeVisualization mounts its Canvas again.
MountCanvas(sz) ==
    /\ ~canvasMounted
    /\ freshSet(composerSets) <= MaxComposerSets
    /\ canvasMounted' = TRUE
    /\ size' = sz
    /\ clock' = 0
    /\ timeUniform' = 0
    /\ readBuffer' = 1
    /\ lastFrame' = NoFrame
    /\ LET c == mountedCanvas(rev, sz, composerSets)
       IN  /\ resolution' = c.resolution
           /\ cameraLayers' = c.cameraLayers
           /\ autoClear' = c.autoClear
           /\ bloomTexture' = c.bloomTexture
           /\ composerSets' = c.composerSets
           /\ composerRef' = c.composerRef
    /\ UNCHANGED <<rev, materialVars, uiVars, pageVars, landVars, mapVars, dpr2, fragCoord, seed, evals, probe>>

IdleFrame ==
    /\ size = <<1, 1>>
    /\ dpr2 = 2
    /\ lastFrame = NoFrame
    /\ canvasMounted = FALSE
    /\ clock = 0
    /\ timeUniform = 0
    /\ cameraLayers = {0}
    /\ autoClear = TRUE
    /\ bloomTexture = <<0, 0>>
    /\ readBuffer = 1
    /\ composerSets = [i \in ComposerSetIds |-> NoSet]
    /\ composerRef = 0

NextFrame ==
    \/ Frame
    \/ \E sz \in Sizes : Resize(sz)
    \/ UnmountCanvas
    \/ \E sz \in Sizes : MountCanvas(sz)

----------------------------------------------------------------------------
(* LandModel: the material traversal of the effect and the pulse callback. *)
(* Numbers are fixed-point (v * Scale).                                    *)

\* Biome props LandModel can be rendered with.
LandBiomes == BIOME_MODEL_MAP \cup {"UNKNOWN", "", "DEFAULT"} \cup ObjectPrototypeKeys

\* The JavaScript value undefined, where a number is expected.
Undefined == 0 - 1

\* const settings: the biome-specific lighting configuration (current).
settings ==
    [k \in {"MYTHIC_VOID", "ISLAND_ARCHIPELAGO", "DESERT_DUNE", "VOLCANIC_CRAG",
            "FOREST_VALLEY", "MYTHIC_AETHER", "DEFAULT"} |->
        [env |-> CASE k \in {"MYTHIC_VOID", "ISLAND_ARCHIPELAGO"} -> 3000
                   [] k = "VOLCANIC_CRAG" -> 1500
                   [] OTHER -> 1000,
         emissive |-> 1000]]

\* const landType = biome || 'DEFAULT'
landType(b) == IF b = "" THEN "DEFAULT" ELSE b

\* A lookup that ignores inherited properties (own keys only).
configOwnKeys(b) ==
    IF landType(b) \in DOMAIN settings THEN settings[landType(b)] ELSE settings["DEFAULT"]

\* const config = settings[landType] || settings.DEFAULT.  An inherited
\* property is a function (truthy) whose env and emissive are undefined.
config(b) ==
    IF landType(b) \in DOMAIN settings THEN settings[landType(b)]
    ELSE IF landType(b) \in ObjectPrototypeKeys
         THEN [env |-> Undefined, emissive |-> Undefined]
         ELSE settings["DEFAULT"]

\* Legacy: envMapIntensity from the upper-cased mesh name.
envByName(name) ==
    IF name \in {"MYTHIC_AETHER", "MYTHIC_VOID", "FOREST_VALLEY", "DESERT_DUNE",
                 "ISLAND_ARCHIPELAGO"}
    THEN 2000
    ELSE IF name = "VOLCANIC_CRAG" THEN 1300 ELSE 1000

\* The emissive-map test of the traversal for material m of mesh:
\* m.emissiveMap in current; obj.material.emissiveMap in legacy, which is
\* undefined when obj.material is an array.
hasEmissiveMap(rv, mesh, m) ==
    IF rv = "current" THEN m.emissiveMap
    ELSE IF mesh.isArray THEN FALSE ELSE mesh.materials[1].emissiveMap

\* The body of materials.forEach for one material.
configureMaterial(rv, b, mesh, m) ==
    LET glow == hasEmissiveMap(rv, mesh, m)
    IN  [m EXCEPT
            !.dithering = TRUE,
            !.envMapIntensity = IF rv = "current" THEN config(b).env ELSE envByName(mesh.name),
            !.emissive = IF glow THEN "white" ELSE "black",
            !.toneMapped = IF rv = "current" /\ glow THEN FALSE ELSE @,
            !.baseEmissive = IF glow
                             THEN (IF rv = "current" THEN config(b).emissive ELSE 2200)
                             ELSE 0,
            !.pulsed = FALSE]

\* A traversal that enables layer 1 on every mesh.
meshLayersAll(rv, mesh) == IF rv = "current" THEN mesh.layers \cup {1} ELSE mesh.layers

\* Selective layer assignment (current): layer 1 is enabled when some
\* material of the mesh has an emissive map.  Legacy assigns no layers.
meshLayers(rv, mesh) ==
    IF rv = "current" /\ \E i \in 1..Len(mesh.materials) : mesh.materials[i].emissiveMap
    THEN mesh.layers \cup {1}
    ELSE mesh.layers

\* The traverse callback for one mesh.
configureMesh(rv, b, mesh) ==
    [mesh EXCEPT
        !.materials = [i \in 1..Len(mesh.materials) |->
                          configureMaterial(rv, b, mesh, mesh.materials[i])],
        !.layers = meshLayers(rv, mesh),
        !.processed = TRUE]

\* Whether the pulse callback writes emissiveIntensity of m: current tests
\* the emissive map or a non-black emissive colour, legacy a positive
\* baseEmissive.
pulses(rv, m) ==
    IF rv = "current"
    THEN m.emissiveMap \/ m.emissive # "black"
    ELSE m.baseEmissive # Undefined /\ m.baseEmissive > 0

\* baseIntensity: m.userData.baseEmissive ?? 1.0 in current.
baseIntensity(rv, m) ==
    IF rv = "current" /\ m.baseEmissive = Undefined THEN 1000 ELSE m.baseEmissive

\* Values of 1.0 + sin(0.8 t) * amplitude: 0.15 in current, 0.25 in legacy.
PulseFactors(rv) == IF rv = "current" THEN {850, 1000, 1150} ELSE {750, 1000, 1250}

pulseMaterial(rv, m, k) ==
    IF pulses(rv, m)
    THEN [m EXCEPT !.emissiveIntensity = (baseIntensity(rv, m) * k) \div 1000,
                   !.pulsed = TRUE]
    ELSE m

\* Materials as the glTF loader delivers them.
LoadedMaterials ==
    [emissiveMap : BOOLEAN, emissive : {"black", "gltf"}, dithering : {FALSE},
     envMapIntensity : {1000}, toneMapped : {TRUE}, baseEmissive : {Undefined},
     emissiveIntensity : {1000}, pulsed : {FALSE}]

MeshNames == {"Cube", "VOLCANIC_CRAG"}

\* Meshes with a single material or a material array of two.
LoadedMeshes ==
    {[name |-> n, isArray |-> FALSE, materials |-> <<m>>, layers |-> {0}, processed |-> FALSE] :
        n \in MeshNames, m \in LoadedMaterials}
    \cup
    {[name |-> "Cube", isArray |-> TRUE, materials |-> <<m1, m2>>, layers |-> {0},
      processed |-> FALSE] : m1 \in LoadedMaterials, m2 \in LoadedMaterials}

\* The LandModel effect on the loaded scene: the refs as in
\* LandModelEffect, and the traversal of every mesh.
ProcessModel ==
    /\ mounted
    /\ gltf # NoModel
    /\ SetLandState(LandModelEffect(gltf, LandState))
    /\ meshes' = IF isInitialized THEN meshes
                 ELSE [i \in 1..Len(meshes) |-> configureMesh(rev, biome, meshes[i])]
    /\ UNCHANGED <<rev, uiVars, pageVars, biome, mounted, gltf, loaderCache, loadedHere, shaderVars,
                   frameVars, mapVars>>

\* The pulse callback of LandModel in one frame, with pulse factor k.
PulseFrame(k) ==
    /\ k \in PulseFactors(rev)
    /\ mounted
    /\ gltf # NoModel
    /\ meshes' = [i \in 1..Len(meshes) |->
                    [meshes[i] EXCEPT !.materials =
                        [j \in 1..Len(meshes[i].materials) |->
                            pulseMaterial(rev, meshes[i].materials[j], k)]]]
    /\ UNCHANGED <<rev, uiVars, pageVars, landVars, shaderVars, frameVars, mapVars>>

IdleMaterials == meshes = <<>>

NextMaterials ==
    \/ ProcessModel
    \/ \E k \in PulseFactors("current") \cup PulseFactors("legacy") : PulseFrame(k)

----------------------------------------------------------------------------
(* MapView: SDK loading, the map initialisation effect and its timer       *)

\* Most maps constructed and most land arrays fetched in a run.
MaxMaps == 3
MaxLandFetches == 3

MapIds == 1..MaxMaps

\* The first unused map id, MaxMaps + 1 when all are used.
freshMap(ms) == IF \E i \in MapIds : ms[i] = "none"
                THEN CHOOSE i \in MapIds : ms[i] = "none" /\ \A j \in 1..(i - 1) : ms[j] # "none"
                ELSE MaxMaps + 1

\* The cleanup the effect returned: if (map) map.remove().
mapCleanup(m, ms) == IF m = 0 THEN ms ELSE [ms EXCEPT ![m] = "removed"]

\* The body of the map initialisation effect with the state it closes
\* over: returns early without the SDK, the global or the lands;
\* otherwise constructs a map (whose load handler is registered).
mapEffect(sdk, global, ld, ms) ==
    IF ~sdk \/ ~global \/ ld = 0
    THEN [map |-> 0, mapState |-> ms]
    ELSE [map |-> freshMap(ms), mapState |-> [ms EXCEPT ![freshMap(ms)] = "created"]]

\* A commit in which a dependency of the effect changed: the previous
\* cleanup runs, then the effect body.
RerunMapEffect(sdk, global, ld) ==
    LET cleaned == mapCleanup(map, mapState)
        ran == mapEffect(sdk, global, ld, cleaned)
    IN  /\ (sdk /\ global /\ ld # 0) => freshMap(cleaned) <= MaxMaps
        /\ map' = ran.map
        /\ mapState' = ran.mapState
        /\ mountMaps' = (IF mvMounted THEN mountMaps ELSE {}) \cup (IF ran.map = 0 THEN {} ELSE {ran.map})

\* Dashboard opens the map tab.  The SDK effect sets maptalksSdkLoaded at
\* once when window.maptalks exists, otherwise appends the script tag.
MountMapView ==
    /\ ~mvMounted
    /\ mvMounted' = TRUE
    /\ maptalksSdkLoaded' = windowMaptalks
    /\ scriptPending' = (scriptPending \/ ~windowMaptalks)
    /\ RerunMapEffect(windowMaptalks, windowMaptalks, lands)
    /\ UNCHANGED <<rev, materialVars, uiVars, pageVars, landVars, shaderVars, frameVars, windowMaptalks, lands, timers, flown, animatedRemoved>>

\* script.onload and its 100 ms timeout: window.maptalks is defined and a
\* mounted MapView sets maptalksSdkLoaded, which re-runs the map effect.
ScriptLoaded ==
    /\ scriptPending
    /\ scriptPending' = FALSE
    /\ windowMaptalks' = TRUE
    /\ IF mvMounted
       THEN /\ maptalksSdkLoaded' = TRUE
            /\ IF maptalksSdkLoaded
               THEN UNCHANGED <<map, mapState, mountMaps>>
               ELSE RerunMapEffect(TRUE, TRUE, lands)
       ELSE UNCHANGED <<maptalksSdkLoaded, map, mapState, mountMaps>>
    /\ UNCHANGED <<rev, materialVars, uiVars, pageVars, landVars, shaderVars, frameVars, mvMounted, lands, timers, flown, animatedRemoved>>

\* The landData query delivers a new array (first load or a refetch): a
\* mounted MapView re-renders with the new reference and the map effect
\* re-runs.
LandsFetched ==
    /\ lands < MaxLandFetches
    /\ lands' = lands + 1
    /\ IF mvMounted
       THEN RerunMapEffect(maptalksSdkLoaded, windowMaptalks, lands')
       ELSE UNCHANGED <<map, mapState, mountMaps>>
    /\ UNCHANGED <<rev, materialVars, uiVars, pageVars, landVars, shaderVars, frameVars, mvMounted, windowMaptalks,
                   scriptPending, maptalksSdkLoaded, timers, flown, animatedRemoved>>

\* The map's load handler: extent, zoom, markers, and the 600 ms timer
\* for the drone animation.
MapLoad(m) ==
    /\ mapState[m] = "created"
    /\ mapState' = [mapState EXCEPT ![m] = "loaded"]
    /\ timers' = timers \cup {m}
    /\ UNCHANGED <<rev, materialVars, uiVars, pageVars, landVars, shaderVars, frameVars, mvMounted, windowMaptalks,
                   scriptPending, maptalksSdkLoaded, lands, map, flown, animatedRemoved, mountMaps>>

\* The 600 ms timer fires: map.animateTo(...) on the map it closed over.
DroneTimer(m) ==
    /\ m \in timers
    /\ timers' = timers \ {m}
    /\ flown' = flown \cup {m}
    /\ animatedRemoved' = IF mapState[m] = "removed" THEN animatedRemoved \cup {m}
                          ELSE animatedRemoved
    /\ UNCHANGED <<rev, materialVars, uiVars, pageVars, landVars, shaderVars, frameVars, mvMounted, windowMaptalks,
                   scriptPending, maptalksSdkLoaded, lands, map, mapState, mountMaps>>

\* MapView unmounts (close button): the effect's cleanup removes the map.
UnmountMapView ==
    /\ mvMounted
    /\ mvMounted' = FALSE
    /\ maptalksSdkLoaded' = FALSE
    /\ mapState' = mapCleanup(map, mapState)
    /\ map' = 0
    /\ UNCHANGED <<rev, materialVars, uiVars, pageVars, landVars, shaderVars, frameVars, windowMaptalks, scriptPending,
                   lands, timers, flown, animatedRemoved, mountMaps>>

IdleMap ==
    /\ mvMounted = FALSE
    /\ windowMaptalks = FALSE
    /\ scriptPending = FALSE
    /\ maptalksSdkLoaded = FALSE
    /\ lands = 0
    /\ map = 0
    /\ mapState = [i \in MapIds |-> "none"]
    /\ timers = {}
    /\ flown = {}
    /\ animatedRemoved = {}
    /\ mountMaps = {}

NextMap ==
    \/ MountMapView
    \/ ScriptLoaded
    \/ LandsFetched
    \/ \E m \in MapIds : MapLoad(m)
    \/ \E m \in MapIds : DroneTimer(m)
    \/ UnmountMapView

----------------------------------------------------------------------------
(* ThreeErrorBoundary                                                      *)

\* Most errors caught in a run.
MaxErrors == 3

\* error.message of a thrown value: a text, the empty string, or no
\* message property at all (a thrown value that is not an Error).
NoMessage == "<undefined>"
ThrownMessages == {"WebGL context lost", "Failed to fetch", "", NoMessage}

\* error.message without the fallback text.
errorMessageRaw(msg) == msg

\* error.message || 'Unknown rendering error'
errorMessage(msg) == IF msg = "" \/ msg = NoMessage THEN "Unknown rendering error" ELSE msg

\* static getDerivedStateFromError(error)
getDerivedStateFromError(msg) == [hasError |-> TRUE, errorMessage |-> errorMessage(msg)]

\* render(): the fallback UI when hasError, the children otherwise.
renderBoundary(st) == IF st.hasError THEN "fallback" ELSE "children"

\* A descendant throws while rendering: React calls
\* getDerivedStateFromError, re-renders the boundary, and calls
\* componentDidCatch, which reports to onError when it is given and
\* returns normally.
ChildThrows(msg) ==
    /\ renderBoundary(boundary) = "children"
    /\ Len(onErrorCalls) < MaxErrors
    /\ boundary' = getDerivedStateFromError(msg)
    /\ onErrorCalls' = IF onErrorProp THEN Append(onErrorCalls, errorMessage(msg))
                       ELSE onErrorCalls
    /\ boundaryLast' = [kind |-> "caught", thrown |-> msg, callsBefore |-> Len(onErrorCalls),
                        rethrown |-> FALSE]
    /\ UNCHANGED <<rev, landVars, materialVars, shaderVars, frameVars, mapVars, pageVars, onErrorProp>>

\* The retry button of the fallback UI.
RetryBoundary ==
    /\ renderBoundary(boundary) = "fallback"
    /\ boundary' = [hasError |-> FALSE, errorMessage |-> ""]
    /\ boundaryLast' = [kind |-> "retry", thrown |-> "", callsBefore |-> Len(onErrorCalls),
                        rethrown |-> FALSE]
    /\ UNCHANGED <<rev, landVars, materialVars, shaderVars, frameVars, mapVars, pageVars, onErrorProp,
                   onErrorCalls>>

IdleBoundary ==
    /\ boundary = [hasError |-> FALSE, errorMessage |-> ""]
    /\ onErrorProp = FALSE
    /\ onErrorCalls = <<>>
    /\ boundaryLast = [kind |-> "none", thrown |-> "", callsBefore |-> 0, rethrown |-> FALSE]

IdleUi == IdleBoundary

NextBoundary ==
    \/ \E msg \in ThrownMessages : ChildThrows(msg)
    \/ RetryBoundary

----------------------------------------------------------------------------
(* Dashboard: the land list, the selected land and what is rendered.       *)

\* Most lands a result holds, and most results delivered in a run.
MaxLands == 3
MaxRefreshes == 3

\* LandData.biome is a string: a key of the map, another text, or a name
\* inherited from Object.prototype.
DashBiomes == {"FOREST_VALLEY", "UNKNOWN", "constructor"}

\* Results of actor.getLandData(): the biomes of the caller's lands.
LandLists == UNION {[1..n -> DashBiomes] : n \in 0..MaxLands}

NoCube == [view |-> "none", canvas |-> FALSE, landModel |-> FALSE, url |-> NoModel]

\* CubeVisualization: the fallback text when modelUrl is null, and otherwise
\* the Canvas with LandModel given the model URL.
cubeView(b) ==
    IF modelUrl(b) = NoModel
    THEN [view |-> "fallback", canvas |-> FALSE, landModel |-> FALSE, url |-> NoModel]
    ELSE [view |-> "canvas", canvas |-> TRUE, landModel |-> TRUE, url |-> modelUrl(b)]

\* One render of Dashboard. The index is zero based as in the source;
\* lands[selectedLandIndex] is undefined when the index is not below the
\* length, and reading its biome for the CubeVisualization prop throws.
renderDashboard(loading, ls, idx) ==
    IF loading
    THEN [view |-> "loading", index |-> idx, len |-> Len(ls), defined |-> FALSE,
          biome |-> "", selector |-> FALSE, cube |-> NoCube]
    ELSE IF Len(ls) = 0
    THEN [view |-> "empty", index |-> idx, len |-> 0, defined |-> FALSE,
          biome |-> "", selector |-> FALSE, cube |-> NoCube]
    ELSE IF idx >= Len(ls)
    THEN [view |-> "threw", index |-> idx, len |-> Len(ls), defined |-> FALSE,
          biome |-> "", selector |-> FALSE, cube |-> NoCube]
    ELSE [view |-> "main", index |-> idx, len |-> Len(ls), defined |-> TRUE,
          biome |-> ls[idx + 1], selector |-> Len(ls) > 1, cube |-> cubeView(ls[idx + 1])]

\* The index-reset effect: back to 0 when the index is not below the length
\* of a non-empty list.
resetEffect(ls, idx) == IF Len(ls) > 0 /\ idx >= Len(ls) THEN 0 ELSE idx

\* An update of Dashboard: it renders; when the render returns, the commit
\* runs the effects, and a reset of the index renders once more. A render
\* that throws commits nothing, so its effects never run.
dashUpdate(loading, ls, idx) ==
    LET first == renderDashboard(loading, ls, idx)
        reset == resetEffect(ls, idx)
    IN  IF first.view = "threw" THEN [renders |-> <<first>>, index |-> idx]
        ELSE IF reset # idx
        THEN [renders |-> <<first, renderDashboard(loading, ls, reset)>>, index |-> reset]
        ELSE [renders |-> <<first>>, index |-> idx]

\* Dashboard is still mounted: its last render returned.
dashAlive == dashRenders[Len(dashRenders)].view # "threw"

\* The land query delivers a result: the first load or a refetch.
LandsLoaded(ls) ==
    /\ dashAlive
    /\ refreshes < MaxRefreshes
    /\ refreshes' = refreshes + 1
    /\ isLoading' = FALSE
    /\ dashLands' = ls
    /\ selectedLandIndex' = dashUpdate(FALSE, ls, selectedLandIndex).index
    /\ dashRenders' = dashUpdate(FALSE, ls, selectedLandIndex).renders
    /\ UNCHANGED <<rev, landVars, materialVars, shaderVars, frameVars, mapVars, uiVars,
                   refMapVars, loopVars, fullscreenVars, lastClick>>

\* A click that makes no call of onSelectLand.
NoCall == 0 - 1

\* LandSelector handlePrevious: the argument of onSelectLand, or no call.
handlePrevious(selectedIndex, len) ==
    IF selectedIndex > 0 THEN selectedIndex - 1 ELSE NoCall

\* handleNext that steps over a land.
handleNextSkipping(selectedIndex, len) ==
    IF selectedIndex < len - 1 THEN selectedIndex + 2 ELSE NoCall

\* LandSelector handleNext: the argument of onSelectLand, or no call.
handleNext(selectedIndex, len) ==
    IF selectedIndex < len - 1 THEN selectedIndex + 1 ELSE NoCall

\* The disabled attribute of the two buttons.
previousDisabled(selectedIndex, len) == selectedIndex = 0
nextDisabled(selectedIndex, len) == selectedIndex = len - 1

\* A click on a LandSelector button: a disabled button ignores it,
\* otherwise the handler runs; a call of onSelectLand is Dashboard's
\* setSelectedLandIndex, which updates Dashboard.
ClickSelector(button, arg) ==
    /\ dashRenders[Len(dashRenders)].selector
    /\ lastClick' = [button |-> button, from |-> selectedLandIndex, len |-> Len(dashLands),
                     called |-> arg # NoCall, arg |-> arg]
    /\ IF arg = NoCall
       THEN UNCHANGED <<selectedLandIndex, dashRenders>>
       ELSE /\ selectedLandIndex' = dashUpdate(isLoading, dashLands, arg).index
            /\ dashRenders' = dashUpdate(isLoading, dashLands, arg).renders
    /\ UNCHANGED <<rev, landVars, materialVars, shaderVars, frameVars, mapVars, uiVars,
                   refMapVars, loopVars, fullscreenVars, isLoading, dashLands, refreshes>>

\* The previous button.
SelectPrevious ==
    /\ dashAlive
    /\ ClickSelector("previous",
                     IF previousDisabled(selectedLandIndex, Len(dashLands)) THEN NoCall
                     ELSE handlePrevious(selectedLandIndex, Len(dashLands)))

\* The next button.
SelectNext ==
    /\ dashAlive
    /\ ClickSelector("next",
                     IF nextDisabled(selectedLandIndex, Len(dashLands)) THEN NoCall
                     ELSE handleNext(selectedLandIndex, Len(dashLands)))

\* Dashboard as first rendered: the query is loading and index 0 is selected.
IdleDashboard ==
    /\ isLoading = TRUE
    /\ dashLands = <<>>
    /\ selectedLandIndex = 0
    /\ dashRenders = <<renderDashboard(TRUE, <<>>, 0)>>
    /\ refreshes = 0
    /\ lastClick = [button |-> "none", from |-> 0, len |-> 0, called |-> FALSE, arg |-> NoCall]

NextDashboard ==
    \/ \E ls \in LandLists : LandsLoaded(ls)
    \/ SelectPrevious
    \/ SelectNext

----------------------------------------------------------------------------
(* MapView, the revisions that keep the map in mapRef: the two older       *)
(* Maptalks revisions (initialisation in try/catch, markers in markersRef) *)
(* and the Leaflet revision.                                               *)

\* Most maps constructed, and most land results delivered, in a run.
MaxRefMaps == 3
MaxRefFetches == 3

RefMapIds == 1..MaxRefMaps

MapLibs == {"maptalks", "leaflet"}

\* How the initialisation that follows the map constructor ends: it
\* completes, or a statement throws before or after markers were added.
InitOutcomes == {"ok", "threwBeforeMarkers", "threwAfterMarkers"}

\* The refs and the maps as one record.
refState == [mapRef |-> mapRef, markersRef |-> markersRef, maps |-> rmMaps,
             markers |-> rmMarkers, hasCleanup |-> hasCleanup, threw |-> FALSE]

\* The id of the next map constructed.
freshRefMap(st) == IF \E i \in RefMapIds : st.maps[i] = "none"
                   THEN CHOOSE i \in RefMapIds :
                            st.maps[i] = "none" /\ \A j \in RefMapIds : j < i => st.maps[j] # "none"
                   ELSE MaxRefMaps + 1

\* The cleanup the previous run of the effect returned, if it returned one.
\* Maptalks: remove the markers in markersRef and empty it, remove the map
\* in mapRef and null it. Leaflet: map.remove() and mapRef.current = null.
refCleanup(lib, st) ==
    IF ~st.hasCleanup THEN st
    ELSE IF lib = "leaflet"
    THEN [st EXCEPT !.maps = IF st.mapRef = 0 THEN @ ELSE [@ EXCEPT ![st.mapRef] = "removed"],
                    !.mapRef = 0, !.hasCleanup = FALSE]
    ELSE [st EXCEPT !.markers = IF st.markersRef = 0 THEN @
                                ELSE [@ EXCEPT ![st.markersRef] = "removed"],
                    !.markersRef = 0,
                    !.maps = IF st.mapRef = 0 THEN @ ELSE [@ EXCEPT ![st.mapRef] = "removed"],
                    !.mapRef = 0, !.hasCleanup = FALSE]

\* The Maptalks effect body: skipped while mapRef holds a map or a
\* dependency is missing (no cleanup returned); otherwise the map is
\* constructed inside try, markers are added and stored in markersRef, and
\* mapRef is assigned last. catch only logs, and the cleanup is returned
\* whether or not try completed.
maptalksEffect(sdk, ld, out, st) ==
    IF st.mapRef # 0 \/ ~sdk \/ ld = 0 THEN [st EXCEPT !.hasCleanup = FALSE]
    ELSE LET m == freshRefMap(st)
             made == [st EXCEPT !.maps[m] = "live", !.hasCleanup = TRUE]
         IN  IF out = "threwBeforeMarkers" THEN made
             ELSE IF out = "threwAfterMarkers" THEN [made EXCEPT !.markers[m] = "added"]
             ELSE [made EXCEPT !.markers[m] = "added", !.markersRef = m, !.mapRef = m]

\* The Leaflet effect body: skipped while mapRef holds a map or window.L
\* is missing; otherwise the map is constructed and assigned to mapRef at
\* once. Nothing catches a throw of the statements that follow, so the
\* effect returns no cleanup and the error leaves the component.
leafletEffect(sdk, ld, out, st) ==
    IF st.mapRef # 0 \/ ~sdk THEN [st EXCEPT !.hasCleanup = FALSE]
    ELSE LET m == freshRefMap(st)
             made == [st EXCEPT !.maps[m] = "live", !.mapRef = m]
         IN  IF out = "ok" THEN [made EXCEPT !.hasCleanup = TRUE]
             ELSE [made EXCEPT !.hasCleanup = FALSE, !.threw = TRUE]

refEffect(lib, sdk, ld, out, st) ==
    IF lib = "leaflet" THEN leafletEffect(sdk, ld, out, st)
    ELSE maptalksEffect(sdk, ld, out, st)

\* The effect runs for a commit: the previous cleanup, then the body. An
\* error thrown out of the effect unmounts MapView.
RunRefEffect(sdk, ld, out, st, isMounted) ==
    LET ran == refEffect(mapLib, sdk, ld, out, refCleanup(mapLib, st))
    IN  /\ freshRefMap(refCleanup(mapLib, st)) <= MaxRefMaps
        /\ mapRef' = ran.mapRef
        /\ markersRef' = ran.markersRef
        /\ rmMaps' = ran.maps
        /\ rmMarkers' = ran.markers
        /\ hasCleanup' = ran.hasCleanup
        /\ rmMounted' = (isMounted /\ ~ran.threw)

\* MapView mounts: new refs, then the effect.
MountRefMapView(out) ==
    /\ ~rmMounted
    /\ RunRefEffect(rmSdk, rmLands, out,
                    [refState EXCEPT !.mapRef = 0, !.markersRef = 0, !.hasCleanup = FALSE], TRUE)
    /\ UNCHANGED <<rev, landVars, materialVars, shaderVars, frameVars, mapVars, uiVars,
                   dashVars, loopVars, fullscreenVars, mapLib, rmSdk, rmLands>>

\* The library script has loaded. The Maptalks revisions set
\* maptalksSdkLoaded, a dependency of the effect; the Leaflet revision
\* has no such state and does not run its effect again.
RefSdkLoaded(out) ==
    /\ ~rmSdk
    /\ rmSdk' = TRUE
    /\ IF rmMounted /\ mapLib = "maptalks"
       THEN RunRefEffect(TRUE, rmLands, out, refState, TRUE)
       ELSE UNCHANGED <<rmMounted, mapRef, markersRef, rmMaps, rmMarkers, hasCleanup>>
    /\ UNCHANGED <<rev, landVars, materialVars, shaderVars, frameVars, mapVars, uiVars,
                   dashVars, loopVars, fullscreenVars, mapLib, rmLands>>

\* The landData query delivers a new array: lands is a dependency of the
\* effect in every revision.
RefLandsFetched(out) ==
    /\ rmLands < MaxRefFetches
    /\ rmLands' = rmLands + 1
    /\ IF rmMounted
       THEN RunRefEffect(rmSdk, rmLands + 1, out, refState, TRUE)
       ELSE UNCHANGED <<rmMounted, mapRef, markersRef, rmMaps, rmMarkers, hasCleanup>>
    /\ UNCHANGED <<rev, landVars, materialVars, shaderVars, frameVars, mapVars, uiVars,
                   dashVars, loopVars, fullscreenVars, mapLib, rmSdk>>

\* MapView unmounts: the last cleanup runs.
UnmountRefMapView ==
    /\ rmMounted
    /\ rmMounted' = FALSE
    /\ mapRef' = refCleanup(mapLib, refState).mapRef
    /\ markersRef' = refCleanup(mapLib, refState).markersRef
    /\ rmMaps' = refCleanup(mapLib, refState).maps
    /\ rmMarkers' = refCleanup(mapLib, refState).markers
    /\ hasCleanup' = FALSE
    /\ UNCHANGED <<rev, landVars, materialVars, shaderVars, frameVars, mapVars, uiVars,
                   dashVars, loopVars, fullscreenVars, mapLib, rmSdk, rmLands>>

IdleRefMap ==
    /\ mapLib \in MapLibs
    /\ rmMounted = FALSE
    /\ rmSdk = FALSE
    /\ rmLands = 0
    /\ mapRef = 0
    /\ markersRef = 0
    /\ rmMaps = [i \in RefMapIds |-> "none"]
    /\ rmMarkers = [i \in RefMapIds |-> "none"]
    /\ hasCleanup = FALSE

NextRefMap ==
    \/ \E out \in InitOutcomes : MountRefMapView(out)
    \/ \E out \in InitOutcomes : RefSdkLoaded(out)
    \/ \E out \in InitOutcomes : RefLandsFetched(out)
    \/ UnmountRefMapView

----------------------------------------------------------------------------
(* MapView, the canvas revision: the requestAnimationFrame render loop.    *)

\* Most loops started, callbacks requested and land results in a run.
MaxLoops == 3
MaxRequests == 6
MaxCanvasFetches == 2

LoopIds == 1..MaxLoops
RequestIds == 1..MaxRequests

\* cancelAnimationFrame(id): the callback scheduled under id never runs.
cancelAnimationFrame(id, pending) == {p \in pending : p[1] # id}

\* The cleanup of the render-loop effect: cancels the request whose id
\* animationFrameRef holds, when it holds one.
loopCleanup(ref, pending) ==
    IF ref # 0 THEN cancelAnimationFrame(ref, pending) ELSE pending

\* The render-loop effect runs for a commit: the previous cleanup, if the
\* previous run returned one, then the body. The body returns early
\* without the image or the lands; otherwise it schedules the first frame
\* of a new loop with requestAnimationFrame(animate), whose id it does not
\* keep, and returns the cleanup.
RunLoopEffect(loaded, ld) ==
    LET cleaned == IF activeLoop # 0 THEN loopCleanup(animationFrameRef, pendingFrames)
                   ELSE pendingFrames
        starts == loaded /\ ld # 0
    IN  /\ starts => (loopCount < MaxLoops /\ requestCount < MaxRequests)
        /\ cleanedLoops' = IF activeLoop # 0 THEN cleanedLoops \cup {activeLoop}
                           ELSE cleanedLoops
        /\ activeLoop' = IF starts THEN loopCount + 1 ELSE 0
        /\ loopCount' = IF starts THEN loopCount + 1 ELSE loopCount
        /\ requestCount' = IF starts THEN requestCount + 1 ELSE requestCount
        /\ pendingFrames' = IF starts
                            THEN cleaned \cup {<<requestCount + 1, loopCount + 1>>}
                            ELSE cleaned
        /\ UNCHANGED <<animationFrameRef, lateFrames>>

\* Dashboard opens the canvas map: imageLoaded is false, so the effect
\* returns early.
MountCanvasMap ==
    /\ cvPhase = "closed"
    /\ cvPhase' = "mounted"
    /\ UNCHANGED <<rev, landVars, materialVars, shaderVars, frameVars, mapVars, uiVars,
                   dashVars, refMapVars, fullscreenVars, imageLoaded, cvLands, activeLoop, loopCount,
                   requestCount, pendingFrames, animationFrameRef, cleanedLoops, lateFrames>>

\* img.onload: imageRef is set and imageLoaded becomes true, a dependency
\* of the render-loop effect.
CanvasImageLoaded ==
    /\ cvPhase = "mounted"
    /\ ~imageLoaded
    /\ imageLoaded' = TRUE
    /\ RunLoopEffect(TRUE, cvLands)
    /\ UNCHANGED <<rev, landVars, materialVars, shaderVars, frameVars, mapVars, uiVars,
                   dashVars, refMapVars, fullscreenVars, cvPhase, cvLands>>

\* The landData query delivers a new array, a dependency of the effect.
CanvasLandsFetched ==
    /\ cvLands < MaxCanvasFetches
    /\ cvLands' = cvLands + 1
    /\ IF cvPhase = "mounted"
       THEN RunLoopEffect(imageLoaded, cvLands + 1)
       ELSE UNCHANGED <<activeLoop, loopCount, requestCount, pendingFrames,
                        animationFrameRef, cleanedLoops, lateFrames>>
    /\ UNCHANGED <<rev, landVars, materialVars, shaderVars, frameVars, mapVars, uiVars,
                   dashVars, refMapVars, fullscreenVars, cvPhase, imageLoaded>>

\* The browser runs a scheduled callback: animate draws, requests the
\* next frame and stores that request's id in animationFrameRef.
AnimateFrame(r, l) ==
    /\ <<r, l>> \in pendingFrames
    /\ requestCount < MaxRequests
    /\ requestCount' = requestCount + 1
    /\ pendingFrames' = (pendingFrames \ {<<r, l>>}) \cup {<<requestCount + 1, l>>}
    /\ animationFrameRef' = requestCount + 1
    /\ lateFrames' = IF l \in cleanedLoops THEN lateFrames \cup {l} ELSE lateFrames
    /\ UNCHANGED <<rev, landVars, materialVars, shaderVars, frameVars, mapVars, uiVars,
                   dashVars, refMapVars, fullscreenVars, cvPhase, imageLoaded, cvLands, activeLoop, loopCount,
                   cleanedLoops>>

\* MapView unmounts: the cleanup of the last effect run, if there is one.
UnmountCanvasMap ==
    /\ cvPhase = "mounted"
    /\ cvPhase' = "unmounted"
    /\ pendingFrames' = IF activeLoop # 0 THEN loopCleanup(animationFrameRef, pendingFrames)
                        ELSE pendingFrames
    /\ cleanedLoops' = IF activeLoop # 0 THEN cleanedLoops \cup {activeLoop} ELSE cleanedLoops
    /\ activeLoop' = 0
    /\ UNCHANGED <<rev, landVars, materialVars, shaderVars, frameVars, mapVars, uiVars,
                   dashVars, refMapVars, fullscreenVars, imageLoaded, cvLands, loopCount, requestCount,
                   animationFrameRef, lateFrames>>

IdleLoop ==
    /\ cvPhase = "closed"
    /\ imageLoaded = FALSE
    /\ cvLands = 0
    /\ activeLoop = 0
    /\ loopCount = 0
    /\ requestCount = 0
    /\ pendingFrames = {}
    /\ animationFrameRef = 0
    /\ cleanedLoops = {}
    /\ lateFrames = {}

NextLoop ==
    \/ MountCanvasMap
    \/ CanvasImageLoaded
    \/ CanvasLandsFetched
    \/ \E r \in RequestIds, l \in LoopIds : AnimateFrame(r, l)
    \/ UnmountCanvasMap

----------------------------------------------------------------------------
(* CubeVisualization: the fullscreen toggle and the fullscreenchange       *)
(* listener.                                                               *)

\* Most fullscreenchange events dispatched in a run.
MaxEvents == 4

\* How the promise of requestFullscreen() / exitFullscreen() settles.
PromiseOutcomes == {"fulfilled", "rejected"}

NoToggle == [op |-> "none", had |-> "none", outcome |-> "none", caught |-> FALSE,
             isBefore |-> FALSE, isAfter |-> FALSE]

\* A toggle that decides from the isFullscreen state.
toggleOpFromState(element, isFs) == IF ~isFs THEN "request" ELSE "exit"

\* toggleFullscreen: requests fullscreen on the container when
\* document.fullscreenElement is null, exits fullscreen otherwise.
toggleOp(element, isFs) == IF element = "none" THEN "request" ELSE "exit"

\* document.fullscreenElement after the promise has settled.
elementAfter(op, outcome, element) ==
    IF outcome = "rejected" THEN element
    ELSE IF op = "request" THEN "container" ELSE "none"

\* handleFullscreenChange: setIsFullscreen(!!document.fullscreenElement)
handleFullscreenChange(element) == element # "none"

\* CubeVisualization mounts with a model: isFullscreen starts false and
\* the effect registers the listener.
MountCube ==
    /\ ~fsMounted
    /\ fsMounted' = TRUE
    /\ isFullscreen' = FALSE
    /\ handledSinceMount' = FALSE
    /\ UNCHANGED <<rev, landVars, materialVars, shaderVars, frameVars, mapVars, uiVars,
                   dashVars, refMapVars, loopVars, fullscreenElement, pendingEvents,
                   eventCount, lastToggle>>

\* The fullscreen button: toggleFullscreen awaits the request or the exit
\* inside try; a rejection is caught and logged. A fulfilled promise
\* changes document.fullscreenElement and the browser dispatches
\* fullscreenchange.
ToggleFullscreen(outcome) ==
    LET op == toggleOp(fullscreenElement, isFullscreen)
        after == elementAfter(op, outcome, fullscreenElement)
    IN  /\ fsMounted
        /\ after # fullscreenElement => eventCount < MaxEvents
        /\ fullscreenElement' = after
        /\ pendingEvents' = IF after # fullscreenElement THEN pendingEvents + 1
                            ELSE pendingEvents
        /\ eventCount' = IF after # fullscreenElement THEN eventCount + 1 ELSE eventCount
        /\ lastToggle' = [op |-> op, had |-> fullscreenElement, outcome |-> outcome,
                          caught |-> outcome = "rejected",
                          isBefore |-> isFullscreen, isAfter |-> isFullscreen]
        /\ UNCHANGED <<rev, landVars, materialVars, shaderVars, frameVars, mapVars, uiVars,
                       dashVars, refMapVars, loopVars, fsMounted, isFullscreen,
                       handledSinceMount>>

\* The user leaves fullscreen with the Escape key.
EscapeFullscreen ==
    /\ fullscreenElement # "none"
    /\ eventCount < MaxEvents
    /\ fullscreenElement' = "none"
    /\ pendingEvents' = pendingEvents + 1
    /\ eventCount' = eventCount + 1
    /\ UNCHANGED <<rev, landVars, materialVars, shaderVars, frameVars, mapVars, uiVars,
                   dashVars, refMapVars, loopVars, fsMounted, isFullscreen,
                   handledSinceMount, lastToggle>>

\* A fullscreenchange event is delivered: the listener of a mounted
\* CubeVisualization runs handleFullscreenChange.
FullscreenChange ==
    /\ pendingEvents > 0
    /\ pendingEvents' = pendingEvents - 1
    /\ IF fsMounted
       THEN /\ isFullscreen' = handleFullscreenChange(fullscreenElement)
            /\ handledSinceMount' = TRUE
       ELSE UNCHANGED <<isFullscreen, handledSinceMount>>
    /\ UNCHANGED <<rev, landVars, materialVars, shaderVars, frameVars, mapVars, uiVars,
                   dashVars, refMapVars, loopVars, fsMounted, fullscreenElement, eventCount,
                   lastToggle>>

\* CubeVisualization unmounts: the cleanup removes the listener; a
\* fullscreen container leaves the document, so the browser exits
\* fullscreen.
UnmountCube ==
    /\ fsMounted
    /\ fullscreenElement # "none" => eventCount < MaxEvents
    /\ fsMounted' = FALSE
    /\ fullscreenElement' = "none"
    /\ pendingEvents' = IF fullscreenElement # "none" THEN pendingEvents + 1 ELSE pendingEvents
    /\ eventCount' = IF fullscreenElement # "none" THEN eventCount + 1 ELSE eventCount
    /\ UNCHANGED <<rev, landVars, materialVars, shaderVars, frameVars, mapVars, uiVars,
                   dashVars, refMapVars, loopVars, isFullscreen, handledSinceMount,
                   lastToggle>>

IdleFullscreen ==
    /\ fsMounted = FALSE
    /\ fullscreenElement = "none"
    /\ isFullscreen = FALSE
    /\ pendingEvents = 0
    /\ eventCount = 0
    /\ handledSinceMount = FALSE
    /\ lastToggle = NoToggle

NextFullscreen ==
    \/ MountCube
    \/ \E outcome \in PromiseOutcomes : ToggleFullscreen(outcome)
    \/ EscapeFullscreen
    \/ FullscreenChange
    \/ UnmountCube

IdlePage ==
    /\ IdleDashboard
    /\ IdleRefMap
    /\ IdleLoop
    /\ IdleFullscreen

----------------------------------------------------------------------------
(* Specifications                                                          *)

Init ==
    /\ rev \in Revisions
    /\ InitLand
    /\ IdleMaterials
    /\ IdleShader
    /\ IdleFrame
    /\ IdleMap
    /\ IdleUi
    /\ IdlePage

SpecLandModel == Init /\ [][NextLand]_vars

InitShaderInputs ==
    /\ rev \in Revisions
    /\ InitLand
    /\ IdleMaterials
    /\ InitShader
    /\ IdleFrame
    /\ IdleMap
    /\ IdleUi
    /\ IdlePage

SpecShader == InitShaderInputs /\ [][NextShader]_vars

InitNoiseInputs ==
    /\ rev \in Revisions
    /\ InitLand
    /\ IdleMaterials
    /\ fragCoord = <<0, 0>>
    /\ resolution = <<1, 1>>
    /\ seed \in Seeds
    /\ evals = [t \in Times |-> NoEval]
    /\ probe = NoProbe
    /\ IdleFrame
    /\ IdleMap
    /\ IdleUi
    /\ IdlePage

SpecNoise == InitNoiseInputs /\ [][NextNoise]_vars

\* The Canvas has mounted at some size on some display and
\* BackgroundSphere has created its uniforms.
InitFrameDriver ==
    /\ rev \in Revisions
    /\ InitLand
    /\ IdleMaterials
    /\ fragCoord = <<0, 0>>
    /\ seed = 0
    /\ evals = [t \in Times |-> NoEval]
    /\ probe = NoProbe
    /\ \E d \in DevicePixelRatios2 : dpr2 = canvasDpr2(rev, d)
    /\ canvasMounted = TRUE
    /\ size \in Sizes
    /\ clock = 0
    /\ timeUniform = 0
    /\ readBuffer = 1
    /\ lastFrame = NoFrame
    /\ LET c == mountedCanvas(rev, size, [i \in ComposerSetIds |-> NoSet])
       IN  /\ resolution = c.resolution
           /\ cameraLayers = c.cameraLayers
           /\ autoClear = c.autoClear
           /\ bloomTexture = c.bloomTexture
           /\ composerSets = c.composerSets
           /\ composerRef = c.composerRef
    /\ IdleMap
    /\ IdleUi
    /\ IdlePage

SpecFrameDriver == InitFrameDriver /\ [][NextFrame]_vars

SpecMapView == Init /\ [][NextMap]_vars

\* LandModel mounted with some biome prop, holding a loaded scene of one
\* mesh whose effect has not run yet.
InitMaterials ==
    /\ rev \in Revisions
    /\ biome \in LandBiomes
    /\ mounted = TRUE
    /\ gltf = "FOREST_VALLEY"
    /\ loaderCache = {"FOREST_VALLEY"}
    /\ isInitialized = FALSE
    /\ fittedRef = FALSE
    /\ dithering = [m \in BIOME_MODEL_MAP |-> FALSE]
    /\ passes = [m \in BIOME_MODEL_MAP |-> 0]
    /\ loadedHere = {"FOREST_VALLEY"}
    /\ \E mesh \in LoadedMeshes : meshes = <<mesh>>
    /\ IdleShader
    /\ IdleFrame
    /\ IdleMap
    /\ IdleUi
    /\ IdlePage

\* ThreeErrorBoundary constructed, with or without an onError prop.
InitBoundary ==
    /\ rev \in Revisions
    /\ InitLand
    /\ IdleMaterials
    /\ IdleShader
    /\ IdleFrame
    /\ IdleMap
    /\ IdlePage
    /\ boundary = [hasError |-> FALSE, errorMessage |-> ""]
    /\ onErrorProp \in BOOLEAN
    /\ onErrorCalls = <<>>
    /\ boundaryLast = [kind |-> "none", thrown |-> "", callsBefore |-> 0, rethrown |-> FALSE]

SpecBoundary == InitBoundary /\ [][NextBoundary]_vars

SpecMaterials == InitMaterials /\ [][NextMaterials]_vars

SpecDashboard == Init /\ [][NextDashboard]_vars

SpecRefMap == Init /\ [][NextRefMap]_vars

SpecLoop == Init /\ [][NextLoop]_vars

SpecFullscreen == Init /\ [][NextFullscreen]_vars

----------------------------------------------------------------------------
(* Claims                                                                  *)

\* C1: every model the mounted LandModel has loaded got the material pass
\* exactly once (never zero times, never twice).
C1_ConfiguredExactlyOnce ==
    mounted => \A m \in loadedHere : passes[m] = 1 /\ dithering[m]
\* C2: in every evaluation of main() with a non-empty viewport each of the
\* three mix weights lies in [0, 1].
C2_WeightsInUnitRange ==
    \A t \in Times :
        evals[t].done /\ evals[t].divisor >= 1 =>
            \A k \in 1..3 : 0 <= evals[t].weights[k] /\ evals[t].weights[k] <= Scale

\* C3: every evaluation divides by a divisor of at least 1 and yields a
\* finite colour, also for a resolution with a zero dimension.
C3_DivisorAtLeastOne ==
    \A t \in Times : evals[t].done => evals[t].divisor >= 1 /\ evals[t].fin

C8_OneOctaveIsNoise ==
    probe.kind = "fbm" /\ probe.n = 1 => probe.num = 2 * noise(probe.pos, seed)

\* C8 (amended): with one octave fbm(pos) is 0.5 times the noise at pos
\* moved by +0.05 * time in both axes (fbm = num / 2, so num = noise).
C8_OneOctaveIsHalfDriftedNoise ==
    probe.kind = "fbm" /\ probe.n = 1 =>
        probe.num = noise(<<probe.pos[1] + (50 * probe.t) \div Scale,
                            probe.pos[2] + (50 * probe.t) \div Scale>>, seed)

\* A one-octave call at a positive time where the drifted noise differs
\* from the noise at the input coordinate.
C8_Witness ==
    /\ probe.kind = "fbm" /\ probe.n = 1 /\ probe.t > 0 /\ probe.num > 0
    /\ noise(probe.pos, seed) #
         noise(<<probe.pos[1] + (50 * probe.t) \div Scale,
                 probe.pos[2] + (50 * probe.t) \div Scale>>, seed)

\* Bilinear interpolation of the corners a, b, c, d with weights ux, uy,
\* as a numerator over Scale^3.
Bilinear(a, b, c, d, ux, uy) ==
    a * (Scale - ux) * (Scale - uy) + b * ux * (Scale - uy)
      + c * (Scale - ux) * uy + d * ux * uy

\* C9: noise(pos) is the bilinear interpolation of the four corner values
\* with the smoothed offsets, and at a lattice point the corner's value.
C9_NoiseIsBilinear ==
    probe.kind = "noise" =>
        /\ probe.num = Bilinear(probe.a, probe.b, probe.c, probe.d, probe.ux, probe.uy)
        /\ (probe.pos[1] % Scale = 0 /\ probe.pos[2] % Scale = 0
                => probe.num = probe.a * Scale * Scale)

\* A call of noise() inside a cell whose corner values differ.
C9_Witness ==
    /\ probe.kind = "noise"
    /\ probe.ux > 0 /\ probe.ux < Scale /\ probe.uy > 0 /\ probe.uy < Scale
    /\ probe.a # probe.b /\ probe.a # probe.c /\ probe.b # probe.d

\* C10: every channel of the colour written to gl_FragColor lies in [0, 1]
\* (stated for the evaluations with a non-empty viewport).
C10_OutputInUnitRange ==
    \A t \in Times :
        evals[t].done /\ evals[t].divisor >= 1 =>
            \A k \in 1..3 : 0 <= evals[t].out[k] /\ evals[t].out[k] <= Scale

\* C5: in every rendered frame the resolution uniform equals the size of
\* the viewport in device pixels.
C5_ResolutionIsViewport ==
    lastFrame.rendered => lastFrame.resolution = lastFrame.viewport

\* C4: while MapView stays mounted the drone flight (animateTo) is started
\* at most once.
C4_OneFlightPerMount ==
    mvMounted => Cardinality(flown \cap mountMaps) <= 1

C12_BloomFrameOrder ==
    rev = "current" /\ canvasMounted /\ lastFrame.rendered =>
        /\ lastFrame.steps =
              <<"layers.set(1)", "bloomComposer.render", "bloomTexture = readBuffer",
                "autoClear = true", "layers.set(0)", "layers.enable(1)",
                "finalComposer.render">>
        /\ lastFrame.bloomSaw.layers = {1}
        /\ lastFrame.finalSaw = [layers |-> {0, 1}, autoClear |-> TRUE,
                                 bloomTexture |-> <<composerRef, readBuffer>>]
        /\ cameraLayers = {0, 1}
        /\ autoClear

\* A frame in which the bloom composer's readBuffer differs from the
\* buffer the composite pass was constructed with.
C12_Witness ==
    /\ rev = "current" /\ canvasMounted /\ lastFrame.rendered
    /\ readBuffer = 1
    /\ lastFrame.finalSaw.bloomTexture = <<composerRef, 1>>

\* C13: for a biome that has a model, every material of a processed mesh
\* with an emissive map has a white emissive colour and a positive
\* baseEmissive; every other material has a black emissive colour,
\* baseEmissive 0 and is not written by a later pulse callback.
C13_EmissiveFollowsMap ==
    \A i \in 1..Len(meshes) :
        biome \in BIOME_MODEL_MAP /\ meshes[i].processed =>
            \A j \in 1..Len(meshes[i].materials) :
                LET m == meshes[i].materials[j]
                IN  IF m.emissiveMap
                    THEN m.emissive = "white" /\ m.baseEmissive > 0
                    ELSE m.emissive = "black" /\ m.baseEmissive = 0 /\ ~m.pulsed

\* C14: after initialisation a mesh has layer 1 enabled exactly when one of
\* its materials has an emissive map; a mesh without one is on layer 0
\* only and is not seen by the bloom composer's render.
C14_LayerOneIffEmissiveMap ==
    rev = "current" =>
        \A i \in 1..Len(meshes) :
            meshes[i].processed =>
                LET glow == \E j \in 1..Len(meshes[i].materials) :
                                meshes[i].materials[j].emissiveMap
                IN  /\ (1 \in meshes[i].layers) <=> glow
                    /\ ~glow => /\ meshes[i].layers = {0}
                                /\ meshes[i].layers
                                     \cap bloomFrame("current", 0, 1).bloomSaw.layers = {}

\* A processed mesh with a material array of which exactly one material
\* has an emissive map.
C14_Witness ==
    /\ rev = "current"
    /\ \E i \in 1..Len(meshes) :
          /\ meshes[i].processed /\ meshes[i].isArray
          /\ meshes[i].materials[1].emissiveMap # meshes[i].materials[2].emissiveMap
          /\ 1 \in meshes[i].layers

\* C17: for every biome value the configuration applied is the biome's own
\* entry of settings when it has one and the DEFAULT entry otherwise, and
\* its envMapIntensity is on every material of the model.
C17_ConfigResolved ==
    rev = "current" =>
        \A i \in 1..Len(meshes) :
            meshes[i].processed =>
                \A j \in 1..Len(meshes[i].materials) :
                    meshes[i].materials[j].envMapIntensity = configOwnKeys(biome).env

\* The composers, render passes and bloom passes of a composer set.
LifecycleObjects(rv) == CreatedObjects(rv) \ {"compositePass"}

\* C15: every composer, with its RenderPass and UnrealBloomPass, is
\* disposed exactly once by the cleanup of the effect run that made it and
\* not before; no frame renders a disposed composer; at most one composer
\* set is live at a time.
C15_ComposerLifecycle ==
    /\ \A i \in ComposerSetIds :
          composerSets[i].made =>
              \A o \in LifecycleObjects(rev) :
                  composerSets[i].disposals[o] = (IF i = composerRef THEN 0 ELSE 1)
    /\ lastFrame.rendered => ~lastFrame.onDisposed
    /\ Cardinality({i \in ComposerSetIds :
                       /\ composerSets[i].made
                       /\ \E o \in Composers(rev) : composerSets[i].disposals[o] = 0}) <= 1

\* C16: after a descendant throws, hasError is true with the error's
\* message (or 'Unknown rendering error'), onError has been called once
\* more, with that message, the fallback is rendered and nothing is
\* rethrown; after the retry button, hasError is false, errorMessage is
\* empty and the children are rendered.
C16_BoundaryCatchesAndResets ==
    /\ boundaryLast.kind = "caught" =>
          /\ boundary.hasError
          /\ boundary.errorMessage =
                (IF boundaryLast.thrown \in {"", NoMessage}
                 THEN "Unknown rendering error" ELSE boundaryLast.thrown)
          /\ onErrorProp =>
                /\ Len(onErrorCalls) = boundaryLast.callsBefore + 1
                /\ onErrorCalls[Len(onErrorCalls)] = boundary.errorMessage
          /\ renderBoundary(boundary) = "fallback"
          /\ ~boundaryLast.rethrown
    /\ boundaryLast.kind = "retry" =>
          /\ boundary = [hasError |-> FALSE, errorMessage |-> ""]
          /\ renderBoundary(boundary) = "children"

\* A second error caught after a retry, thrown without a message.
C16_Witness ==
    /\ boundaryLast.kind = "caught"
    /\ boundaryLast.thrown = NoMessage
    /\ onErrorProp
    /\ Len(onErrorCalls) = 2

\* C18: CubeVisualization shows the fallback, with neither the Canvas nor
\* LandModel mounted, exactly when the biome is missing or is not a key of
\* BIOME_MODEL_MAP; for a key it mounts the Canvas with that key's model URL.
C18_FallbackIffUnmapped ==
    \A i \in 1..Len(dashRenders) :
        dashRenders[i].view = "main" =>
            LET b == dashRenders[i].biome
                c == dashRenders[i].cube
            IN  /\ (c.view = "fallback" /\ ~c.canvas /\ ~c.landModel)
                       <=> (b = "" \/ b \notin BIOME_MODEL_MAP)
                /\ b \in BIOME_MODEL_MAP => (c.canvas /\ c.url = b)

\* C19: whenever Dashboard renders past the empty-list check with a
\* non-empty land list, selectedLandIndex is below lands.length, so the land
\* whose biome is read is defined.
C19_IndexInRange ==
    \A i \in 1..Len(dashRenders) :
        (~isLoading /\ dashRenders[i].len > 0) =>
            (dashRenders[i].index < dashRenders[i].len /\ dashRenders[i].defined)

\* C20: map.animateTo is never invoked on a map after the effect cleanup
\* has removed it, however the delayed timer interleaves with an unmount or
\* a dependency change.
C20_NoAnimateAfterRemove == animatedRemoved = {}

\* C21: a mounted MapView has at most one map that was constructed and not
\* removed; mapRef holds only a live map; and a map is constructed only
\* when every earlier map has been removed with its markers and mapRef
\* cleared, also when an initialisation threw part-way through.
C21_AtMostOneMap ==
    /\ Cardinality({m \in RefMapIds : rmMaps[m] = "live"}) <= 1
    /\ mapRef # 0 => rmMaps[mapRef] = "live"
    /\ \A m \in RefMapIds : rmMaps[m] = "removed" => rmMarkers[m] # "added"

\* C22: once the render-loop effect has been cleaned up, no animate frame
\* of that loop runs, and at most one loop has a frame scheduled at any
\* time, whenever the cleanup runs.
C22_NoFrameAfterCleanup ==
    /\ lateFrames = {}
    /\ Cardinality({p[2] : p \in pendingFrames}) <= 1

\* C23: every call of onSelectLand that a click on previous or next makes
\* has an index within [0, lands.length - 1] that differs from the current
\* index by exactly 1; previous at index 0 and next at the last index make
\* no call.
C23_SelectorCallsInRange ==
    lastClick.button # "none" =>
        /\ lastClick.called =>
               /\ lastClick.arg \in 0..(lastClick.len - 1)
               /\ Abs(lastClick.arg - lastClick.from) = 1
        /\ (lastClick.button = "previous" /\ lastClick.from = 0) => ~lastClick.called
        /\ (lastClick.button = "next" /\ lastClick.from = lastClick.len - 1)
               => ~lastClick.called

\* A click on next made a call that selected the last land of three.
C23_Witness ==
    /\ lastClick.button = "next"
    /\ lastClick.called
    /\ lastClick.len = 3
    /\ lastClick.arg = lastClick.len - 1
    /\ selectedLandIndex = lastClick.arg

\* C24: once the mounted component has handled every fullscreenchange
\* event dispatched, isFullscreen equals (document.fullscreenElement is
\* not null); toggleFullscreen requests fullscreen when no element is
\* fullscreen and exits otherwise; and a rejected request or exit is caught
\* and leaves isFullscreen and the fullscreen element unchanged.
C24_FullscreenInSync ==
    /\ (fsMounted /\ handledSinceMount /\ pendingEvents = 0)
           => (isFullscreen = (fullscreenElement # "none"))
    /\ lastToggle.op # "none" =>
           /\ (lastToggle.op = "request") = (lastToggle.had = "none")
           /\ (lastToggle.op = "exit") = (lastToggle.had # "none")
           /\ lastToggle.outcome = "rejected" =>
                  (lastToggle.caught /\ lastToggle.isAfter = lastToggle.isBefore)

\* The component is fullscreen with every event handled, after a toggle
\* that was made while an earlier exit had not been handled yet.
C24_Witness ==
    /\ fsMounted
    /\ handledSinceMount
    /\ pendingEvents = 0
    /\ isFullscreen
    /\ fullscreenElement = "container"
    /\ lastToggle.op = "request"
    /\ lastToggle.isBefore

====
